---- MODULE Spec2Model ----
(***************************************************************************)
(* Backup and restore of a Power BI workspace: the backup orchestrator     *)
(* (backup.Service), the restore orchestrator (restore.Service) and the    *)
(* snapshot store (storage.StorageService), with the remote API and the    *)
(* file system as the environment.                                         *)
(***************************************************************************)
EXTENDS Integers, Sequences, FiniteSets, TLC

(***************************************************************************)
(* Bounds of the model.                                                    *)
(***************************************************************************)
\* reports in the source workspace
MaxReports == 2
\* datasets in the source workspace
MaxDatasets == 2
\* artifact files in a snapshot directory given to a restore run
MaxFiles == 2
\* refresh schedules in a snapshot given to a restore run
MaxSchedules == 2
\* desired names handed to the name reconciliation in a row
MaxDesired == 3
\* runs started side by side by the service layer
MaxRuns == 2
\* calls of GetAccessToken going on at once
MaxCallers == 3
\* entries in the listing of the workspaces
MaxWorkspaces == 3

(***************************************************************************)
(* Names.  A name is a base string followed by the "_<n>" suffixes that    *)
(* the restore appends: [base |-> "Sales", sfx |-> <<1>>] is "Sales_1".    *)
(***************************************************************************)
N(b) == [base |-> b, sfx |-> <<>>]

\* fmt.Sprintf("%s_%d", datasetName, counter)
SuffixName(datasetName, counter) ==
    [datasetName EXCEPT !.sfx = Append(@, counter)]

\* the workspace the backup is taken of, and its display name
WorkspaceID == "W"
SrcWorkspaceName == "Finance"

\* names of the reports and datasets of the source workspace
SrcReportNames == {N("Sales"), N("Ops")}
SrcDatasetNames == {N("Sales"), N("Ops")}

\* the remote collections that do not vary
SrcDataflows == <<[ObjectID |-> "f1", Name |-> N("Flow")]>>
SrcDashboards == <<[ID |-> "b1", DisplayName |-> N("Board")]>>
\* GET /apps returns the apps of every workspace
SrcApps == <<[ID |-> "a1", Name |-> N("App"), WorkspaceID |-> "W"],
             [ID |-> "a2", Name |-> N("Other"), WorkspaceID |-> "V"]>>

\* time.Now(): seconds and the fraction of the second
Times == {[sec |-> 1, ns |-> 0], [sec |-> 1, ns |-> 5], [sec |-> 2, ns |-> 0]}
NoTime == [sec |-> 0, ns |-> 0]

\* t.Format("2006-01-02_15-04-05"): the fraction is dropped
Format(t) == t.sec

Stamps == {Format(t) : t \in Times}

(***************************************************************************)
(* models.CompleteBackup                                                   *)
(***************************************************************************)
EmptyBackup ==
    [Timestamp |-> NoTime, WorkspaceID |-> "", WorkspaceName |-> "",
     Reports |-> <<>>, Datasets |-> <<>>, Dataflows |-> <<>>,
     Dashboards |-> <<>>, Apps |-> <<>>, RefreshSchedules |-> <<>>]

\* Time.MarshalJSON: RFC 3339 with the seconds only
RFC3339(t) == <<t.sec, 0>>

\* Time.MarshalJSON: RFC 3339 with the fraction of the second
RFC3339Nano(t) == <<t.sec, t.ns>>

\* Time.UnmarshalJSON
ParseTime(text) == [sec |-> text[1], ns |-> text[2]]

\* json.MarshalIndent(backup, "", "  "): the document, keyed by the json tags
Marshal(b) ==
    [timestamp |-> RFC3339Nano(b.Timestamp), workspaceId |-> b.WorkspaceID,
     workspaceName |-> b.WorkspaceName, reports |-> b.Reports,
     datasets |-> b.Datasets, dataflows |-> b.Dataflows,
     dashboards |-> b.Dashboards, apps |-> b.Apps,
     refreshSchedules |-> b.RefreshSchedules]

\* json.Unmarshal(data, &backup)
Unmarshal(doc) ==
    [Timestamp |-> ParseTime(doc.timestamp), WorkspaceID |-> doc.workspaceId,
     WorkspaceName |-> doc.workspaceName, Reports |-> doc.reports,
     Datasets |-> doc.datasets, Dataflows |-> doc.dataflows,
     Dashboards |-> doc.dashboards, Apps |-> doc.apps,
     RefreshSchedules |-> doc.refreshSchedules]

\* no complete_backup.json, or one that was cut short
NoFile == [state |-> "none", data |-> Marshal(EmptyBackup)]
CutFile == [state |-> "partial", data |-> Marshal(EmptyBackup)]

\* a run directory <backupPath>/<workspaceID>/<timestamp> that does not exist
NoDir == [exists |-> FALSE, pbixDir |-> FALSE, pbix |-> {}, full |-> NoFile]

VARIABLES
    srcReports,     \* remote: the reports of the source workspace
    srcDatasets,    \* remote: the datasets of the source workspace
    fs,             \* file system: timestamp -> run directory of WorkspaceID
    bpc,            \* BackupWorkspace: position
    backupTime,     \* BackupWorkspace: backupTime
    backup,         \* BackupWorkspace: backup (the snapshot being built)
    reports,        \* BackupWorkspace: reports (nil when the fetch failed)
    datasets,       \* BackupWorkspace: datasets (nil when the fetch failed)
    schedules,      \* backupRefreshSchedules: schedules
    bi,             \* index of the loop of backupRefreshSchedules / backupReportsPBIX
    pbixStatus,     \* backupReportsPBIX: succeeded and failed
    bcalls,         \* the remote and storage calls of the backup run, in order
    bresult,        \* BackupWorkspace: what it returned
    target,         \* remote: the datasets of the target workspace
    backupPath,     \* RestoreWorkspace: backupPath (the run directory restored)
    rpc,            \* RestoreWorkspace: position
    rbackup,        \* RestoreWorkspace: backup (the snapshot loaded)
    files,          \* restoreReportsPBIX: files
    ri,             \* index of the loop of restoreReportsPBIX / restoreRefreshSchedules
    existingDatasets, \* restoreReportsPBIX: existingDatasets
    rcounts,        \* restoreReportsPBIX: imported and failed
    imports,        \* the ImportPBIX calls of the restore run, in order
    datasetNameToID, \* restoreRefreshSchedules: datasetNameToID
    scounts,        \* restoreRefreshSchedules: restored and failed
    schedLog,       \* what was done for each schedule of the snapshot, in order
    rcalls,         \* the remote calls of the restore run, in order
    rresult,        \* RestoreWorkspace: what it returned
    runs,           \* runs started side by side: run -> its local variables
    tokenCache,     \* AuthService: tokenCache
    tokenRequests,  \* the requests sent to the token endpoint so far
    all             \* backupAllWorkspaces: its local variables

bvars == <<srcReports, srcDatasets, bpc, backupTime, backup, reports,
           datasets, schedules, bi, pbixStatus, bcalls, bresult>>

rvars == <<target, backupPath, rpc, rbackup, files, ri, existingDatasets,
           rcounts, imports, datasetNameToID, scounts, schedLog, rcalls,
           rresult>>

\* the variables of the runs side by side, of the AuthService and of a backup
\* of all workspaces
xvars == <<runs, tokenCache, tokenRequests, all>>

vars == <<fs, bvars, rvars, xvars>>

\* no run side by side, no token asked for, no backup of all workspaces
Idle ==
    /\ runs = <<>>
    /\ tokenCache = ""
    /\ tokenRequests = 0
    /\ all = <<>>

(***************************************************************************)
(* The remote source workspace.                                            *)
(***************************************************************************)
ReportIds == <<"r1", "r2", "r3", "r4">>
DatasetIds == <<"d1", "d2", "d3", "d4">>

SeqsUpTo(S, n) == UNION {[1..k -> S] : k \in 0..n}

\* the items with ids[1..k] and names[1..k], as a sequence
RECURSIVE Items(_, _, _)
Items(ids, names, k) ==
    IF k = 0 THEN <<>>
    ELSE Append(Items(ids, names, k - 1), [ID |-> ids[k], Name |-> names[k]])

\* GET /groups/{id}/reports, as backupReports converts the response
RemoteReports(names) == Items(ReportIds, names, Len(names))

\* GET /groups/{id}/datasets, as backupDatasets converts the response
RemoteDatasets(names) == Items(DatasetIds, names, Len(names))

\* GET /groups/{id}/datasets/{id}/refreshSchedule: the opaque configuration
RemoteSchedule(datasetID) == [days |-> datasetID]

\* backupApps, lines 275-293: the apps of this workspace, in order
RECURSIVE SelectApps(_, _)
SelectApps(apps, workspaceID) ==
    IF apps = <<>> THEN <<>>
    ELSE IF Head(apps).WorkspaceID # workspaceID
         THEN SelectApps(Tail(apps), workspaceID)
         ELSE <<Head(apps)>> \o SelectApps(Tail(apps), workspaceID)

Call(c, a, ok) == [call |-> c, arg |-> a, ok |-> ok]

(***************************************************************************)
(* backup.Service.BackupWorkspace                                          *)
(***************************************************************************)
NoId == [kind |-> "none", of |-> N("")]

\* the variables of a backup run before it starts (pc: "start", or "off" for no run)
BackupRunInit(pc) ==
    /\ bpc = pc
    /\ backupTime = NoTime
    /\ backup = EmptyBackup
    /\ reports = <<>>
    /\ datasets = <<>>
    /\ schedules = <<>>
    /\ bi = 0
    /\ pbixStatus = [succeeded |-> 0, failed |-> 0]
    /\ bcalls = <<>>
    /\ bresult = "none"

\* the variables of a restore run before it starts ("off": no run)
RestoreRunInit(pc) ==
    /\ rpc = pc
    /\ rbackup = EmptyBackup
    /\ files = <<>>
    /\ ri = 0
    /\ existingDatasets = {}
    /\ rcounts = [imported |-> 0, failed |-> 0]
    /\ imports = <<>>
    /\ datasetNameToID = {}
    /\ scounts = [restored |-> 0, failed |-> 0]
    /\ schedLog = <<>>
    /\ rcalls = <<>>
    /\ rresult = "none"

\* a backup run of a source workspace, into an empty backup path
BackupInit ==
    /\ srcReports \in {RemoteReports(ns) : ns \in SeqsUpTo(SrcReportNames, MaxReports)}
    /\ srcDatasets \in {RemoteDatasets(ns) : ns \in SeqsUpTo(SrcDatasetNames, MaxDatasets)}
    /\ fs = [st \in Stamps |-> NoDir]
    /\ BackupRunInit("start")
    /\ target = {}
    /\ backupPath = 0
    /\ RestoreRunInit("off")
    /\ Idle

\* the run blocked for good instead of returning
BackupBlocks ==
    /\ bpc' = "blocked"
    /\ bresult' = "error"

\* return nil, err
BackupAbort ==
    /\ bpc' = "done"
    /\ bresult' = "error"

\* lines 34-42: the run directory is created before anything is fetched
BackupMkdir ==
    /\ bpc = "start"
    /\ \E t \in Times, ok \in BOOLEAN :
        /\ backupTime' = t
        /\ IF ok
           THEN /\ fs' = [fs EXCEPT ![Format(t)].exists = TRUE]
                /\ bpc' = "settings"
                /\ UNCHANGED bresult
           ELSE /\ BackupAbort
                /\ UNCHANGED fs
    /\ UNCHANGED <<rvars, xvars>>
    /\ UNCHANGED <<srcReports, srcDatasets, backup, reports, datasets,
                   schedules, bi, pbixStatus, bcalls>>

\* the failure logged and the run going on, as for the other fetches
SettingsFailedGoesOn ==
    /\ bpc' = "reports"
    /\ UNCHANGED <<backup, bresult>>

\* what follows a failed GetWorkspaceSettings (lines 46-49)
SettingsFailed ==
    /\ BackupAbort
    /\ UNCHANGED backup

\* lines 44-61
GetWorkspaceSettings ==
    /\ bpc = "settings"
    /\ \E ok \in BOOLEAN :
        /\ bcalls' = Append(bcalls, Call("GetWorkspaceSettings", WorkspaceID, ok))
        /\ IF ok
           THEN /\ backup' = [EmptyBackup EXCEPT !.Timestamp = backupTime,
                                                 !.WorkspaceID = WorkspaceID,
                                                 !.WorkspaceName = SrcWorkspaceName]
                /\ bpc' = "reports"
                /\ UNCHANGED bresult
           ELSE SettingsFailed
    /\ UNCHANGED <<rvars, xvars>>
    /\ UNCHANGED <<srcReports, srcDatasets, fs, backupTime, reports, datasets,
                   schedules, bi, pbixStatus>>

\* lines 63-71 and 144-173
backupReports ==
    /\ bpc = "reports"
    /\ \E ok \in BOOLEAN :
        /\ bcalls' = Append(bcalls, Call("GetReports", WorkspaceID, ok))
        /\ reports' = IF ok THEN srcReports ELSE <<>>
        /\ backup' = IF ok THEN [backup EXCEPT !.Reports = srcReports] ELSE backup
    /\ bpc' = "datasets"
    /\ UNCHANGED <<rvars, xvars>>
    /\ UNCHANGED <<srcReports, srcDatasets, fs, backupTime, datasets,
                   schedules, bi, pbixStatus, bresult>>

\* lines 73-81 and 175-204
backupDatasets ==
    /\ bpc = "datasets"
    /\ \E ok \in BOOLEAN :
        /\ bcalls' = Append(bcalls, Call("GetDatasets", WorkspaceID, ok))
        /\ datasets' = IF ok THEN srcDatasets ELSE <<>>
        /\ backup' = IF ok THEN [backup EXCEPT !.Datasets = srcDatasets] ELSE backup
    /\ bpc' = "dataflows"
    /\ UNCHANGED <<rvars, xvars>>
    /\ UNCHANGED <<srcReports, srcDatasets, fs, backupTime, reports,
                   schedules, bi, pbixStatus, bresult>>

\* lines 83-91 and 206-232
backupDataflows ==
    /\ bpc = "dataflows"
    /\ \E ok \in BOOLEAN :
        /\ bcalls' = Append(bcalls, Call("GetDataflows", WorkspaceID, ok))
        /\ backup' = IF ok THEN [backup EXCEPT !.Dataflows = SrcDataflows] ELSE backup
    /\ bpc' = "dashboards"
    /\ UNCHANGED <<rvars, xvars>>
    /\ UNCHANGED <<srcReports, srcDatasets, fs, backupTime, reports, datasets,
                   schedules, bi, pbixStatus, bresult>>

\* lines 93-101 and 234-262
backupDashboards ==
    /\ bpc = "dashboards"
    /\ \E ok \in BOOLEAN :
        /\ bcalls' = Append(bcalls, Call("GetDashboards", WorkspaceID, ok))
        /\ backup' = IF ok THEN [backup EXCEPT !.Dashboards = SrcDashboards] ELSE backup
    /\ bpc' = "apps"
    /\ UNCHANGED <<rvars, xvars>>
    /\ UNCHANGED <<srcReports, srcDatasets, fs, backupTime, reports, datasets,
                   schedules, bi, pbixStatus, bresult>>

\* the error of the apps fetch returned to the caller of BackupWorkspace
AppsFailedAborts ==
    /\ BackupAbort
    /\ UNCHANGED backup

\* what follows a failed GetApps (lines 265-268 and 105-111): backupApps
\* returns no apps and no error, and the run goes on
AppsFailed ==
    /\ backup' = [backup EXCEPT !.Apps = <<>>]
    /\ bpc' = "schedules"
    /\ UNCHANGED bresult

\* lines 103-111 and 264-296
backupApps ==
    /\ bpc = "apps"
    /\ \E ok \in BOOLEAN :
        /\ bcalls' = Append(bcalls, Call("GetApps", "", ok))
        /\ IF ok
           THEN /\ backup' = [backup EXCEPT !.Apps = SelectApps(SrcApps, WorkspaceID)]
                /\ bpc' = "schedules"
                /\ UNCHANGED bresult
           ELSE AppsFailed
    /\ bi' = 1
    /\ schedules' = <<>>
    /\ UNCHANGED <<rvars, xvars>>
    /\ UNCHANGED <<srcReports, srcDatasets, fs, backupTime, reports, datasets,
                   pbixStatus>>

\* the entry without the name of the dataset
ScheduleByIdOnly(dataset) ==
    [DatasetID |-> dataset.ID, DatasetName |-> N(""),
     Schedule |-> RemoteSchedule(dataset.ID)]

\* lines 308-312: models.RefreshSchedule{DatasetID, DatasetName, Schedule}
ScheduleEntry(dataset) ==
    [DatasetID |-> dataset.ID, DatasetName |-> dataset.Name,
     Schedule |-> RemoteSchedule(dataset.ID)]

\* the loop body with the `continue` of line 305 missing
AddScheduleAlways(scheds, dataset, ok) ==
    Append(scheds, ScheduleEntry(dataset))

\* lines 302-312: the schedule of a dataset is appended unless its fetch failed
AddSchedule(scheds, dataset, ok) ==
    IF ok THEN Append(scheds, ScheduleEntry(dataset)) ELSE scheds

\* lines 113-121 and 298-316: one GetRefreshSchedule per dataset of the local
\* datasets; a failed one is skipped
backupRefreshSchedules ==
    /\ bpc = "schedules"
    /\ IF bi <= Len(datasets)
       THEN /\ \E ok \in BOOLEAN :
                /\ bcalls' = Append(bcalls,
                                Call("GetRefreshSchedule", datasets[bi].ID, ok))
                /\ schedules' = AddSchedule(schedules, datasets[bi], ok)
            /\ bi' = bi + 1
            /\ UNCHANGED <<backup, bpc>>
       ELSE /\ backup' = [backup EXCEPT !.RefreshSchedules = schedules]
            /\ bpc' = "pbix"
            /\ UNCHANGED <<bcalls, schedules, bi>>
    /\ UNCHANGED <<rvars, xvars>>
    /\ UNCHANGED <<srcReports, srcDatasets, fs, backupTime, reports, datasets,
                   pbixStatus, bresult>>

\* filepath.Join(pbixDir, fmt.Sprintf("%s.pbix", report.Name))
PbixFile(name) == [stem |-> name, ext |-> "pbix"]

\* api.Client.ExportReport, lines 126-173, on the files of the pbix directory:
\* "fail" ends before os.Create, "fail_copy" after it
ExportReport(pbix, report, outcome) ==
    IF outcome = "fail" THEN pbix
    ELSE {f \in pbix : f.name # PbixFile(report.Name)}
         \cup {[name |-> PbixFile(report.Name), report |-> report.ID,
                whole |-> (outcome = "ok")]}

ExportOutcomes == {"ok", "fail", "fail_copy"}

\* the counting with the failed++ of line 344 missing
CountSucceededOnly(status, success) ==
    IF success THEN [status EXCEPT !.succeeded = @ + 1] ELSE status

\* lines 342-349: failed++ or succeeded++
CountExport(status, success) ==
    IF success
    THEN [status EXCEPT !.succeeded = @ + 1]
    ELSE [status EXCEPT !.failed = @ + 1]

\* lines 123-130 and 319-329: nothing to export, or the pbix directory is made
backupReportsPBIX ==
    /\ bpc = "pbix"
    /\ IF Len(reports) = 0
       THEN /\ bpc' = "save"
            /\ UNCHANGED <<fs, bi>>
       ELSE \E ok \in BOOLEAN :
              IF ok
              THEN /\ fs' = [fs EXCEPT ![Format(backupTime)].pbixDir = TRUE]
                   /\ bi' = 1
                   /\ bpc' = "export"
              ELSE /\ bpc' = "save"
                   /\ UNCHANGED <<fs, bi>>
    /\ pbixStatus' = [succeeded |-> 0, failed |-> 0]
    /\ UNCHANGED <<rvars, xvars>>
    /\ UNCHANGED <<srcReports, srcDatasets, backupTime, backup, reports,
                   datasets, schedules, bcalls, bresult>>

\* lines 334-352: one ExportReport per report
backupReportsPBIXLoop ==
    /\ bpc = "export"
    /\ IF bi <= Len(reports)
       THEN /\ \E outcome \in ExportOutcomes :
                /\ bcalls' = Append(bcalls,
                                Call("ExportReport", reports[bi].ID, outcome = "ok"))
                /\ fs' = [fs EXCEPT ![Format(backupTime)].pbix =
                            ExportReport(@, reports[bi], outcome)]
                /\ pbixStatus' = CountExport(pbixStatus, outcome = "ok")
            /\ bi' = bi + 1
            /\ UNCHANGED bpc
       ELSE /\ bpc' = "save"
            /\ UNCHANGED <<fs, pbixStatus, bcalls, bi>>
    /\ UNCHANGED <<rvars, xvars>>
    /\ UNCHANGED <<srcReports, srcDatasets, backupTime, backup, reports,
                   datasets, schedules, bresult>>

(***************************************************************************)
(* storage.StorageService                                                  *)
(***************************************************************************)
SaveOutcomes == {"ok", "fail", "fail_partial"}

\* the directory named after the latest time instead of the snapshot's
SaveDirLatest(b) == CHOOSE st \in Stamps : \A other \in Stamps : other <= st

\* lines 34-35: the directory of (backup.WorkspaceID, backup.Timestamp), which
\* SaveBackup returns
SaveDir(b) == Format(b.Timestamp)

\* SaveBackup, lines 32-69, on the file system: the directory of
\* (WorkspaceID, Timestamp) is made and complete_backup.json written into it;
\* a failed os.WriteFile leaves no file ("fail") or a cut one ("fail_partial")
SaveBackup(disk, b, outcome) ==
    LET dir == SaveDir(b)
        made == [disk EXCEPT ![dir].exists = TRUE]
    IN  CASE outcome = "ok" ->
               [made EXCEPT ![dir].full = [state |-> "ok", data |-> Marshal(b)]]
          [] outcome = "fail_partial" ->
               [made EXCEPT ![dir].full = CutFile]
          [] OTHER -> made

\* LoadBackup, lines 89-106: os.ReadFile and json.Unmarshal of complete_backup.json
LoadBackup(disk, dir) ==
    IF disk[dir].exists /\ disk[dir].full.state = "ok"
    THEN [ok |-> TRUE, backup |-> Unmarshal(disk[dir].full.data)]
    ELSE [ok |-> FALSE, backup |-> EmptyBackup]

\* the stamps of S in increasing order (os.ReadDir sorts by name)
RECURSIVE SortedStamps(_)
SortedStamps(S) ==
    IF S = {} THEN <<>>
    ELSE LET m == CHOOSE x \in S : \A y \in S : x <= y
         IN  <<m>> \o SortedStamps(S \ {m})

\* ListBackups, lines 109-130: every directory under <backupPath>/<workspaceID>
ListBackups(disk) == SortedStamps({st \in DOMAIN disk : disk[st].exists})

\* GetLatestBackup, lines 133-146 (0: the error "no backups found")
GetLatestBackup(disk) ==
    LET backups == ListBackups(disk)
    IN  IF Len(backups) = 0 THEN 0 ELSE backups[Len(backups)]

\* SaveBackup called again after it failed
SaveFailedRetries ==
    /\ bpc' = "save"
    /\ UNCHANGED bresult

\* what follows a failed SaveBackup (lines 135-138)
SaveFailed ==
    BackupAbort

\* lines 132-141
BackupSave ==
    /\ bpc = "save"
    /\ \E outcome \in SaveOutcomes :
        /\ bcalls' = Append(bcalls, Call("SaveBackup", WorkspaceID, outcome = "ok"))
        /\ fs' = SaveBackup(fs, backup, outcome)
        /\ IF outcome = "ok"
           THEN /\ bpc' = "done"
                /\ bresult' = "ok"
           ELSE SaveFailed
    /\ UNCHANGED <<rvars, xvars>>
    /\ UNCHANGED <<srcReports, srcDatasets, backupTime, backup, reports,
                   datasets, schedules, bi, pbixStatus>>

BackupNext ==
    \/ BackupMkdir
    \/ GetWorkspaceSettings
    \/ backupReports
    \/ backupDatasets
    \/ backupDataflows
    \/ backupDashboards
    \/ backupApps
    \/ backupRefreshSchedules
    \/ backupReportsPBIX
    \/ backupReportsPBIXLoop
    \/ BackupSave

SpecBackup == BackupInit /\ [][BackupNext]_vars

(***************************************************************************)
(* The snapshot directory read by a restore run.                           *)
(***************************************************************************)
\* the order of the base strings as strings
BaseOrder == <<"", "App", "Board", "Flow", "Ops", "Other", "Sales">>

BaseRank(b) == CHOOSE i \in 1..Len(BaseOrder) : BaseOrder[i] = b

\* s before t as suffixes followed by ".pbix": "." sorts before "_", so a
\* proper prefix comes first; the counters of the model have one digit
RECURSIVE SfxLess(_, _)
SfxLess(s, t) ==
    IF t = <<>> THEN FALSE
    ELSE IF s = <<>> THEN TRUE
    ELSE IF Head(s) # Head(t) THEN Head(s) < Head(t)
    ELSE SfxLess(Tail(s), Tail(t))

\* the file of name a sorts before the file of name b
NameLess(a, b) ==
    IF a.base # b.base THEN BaseRank(a.base) < BaseRank(b.base)
    ELSE SfxLess(a.sfx, b.sfx)

\* the names of S as a sequence, sorted as file names
RECURSIVE SortedStemsOf(_)
SortedStemsOf(S) ==
    IF S = {} THEN <<>>
    ELSE LET m == CHOOSE x \in S : \A y \in S \ {x} : NameLess(x, y)
         IN  <<m>> \o SortedStemsOf(S \ {m})

\* the file names of S, sorted
RECURSIVE SortedNames(_)
SortedNames(S) ==
    IF S = {} THEN <<>>
    ELSE LET m == CHOOSE x \in S : \A y \in S \ {x} : NameLess(x.stem, y.stem)
         IN  <<m>> \o SortedNames(S \ {m})

\* filepath.Glob(filepath.Join(pbixDir, "*.pbix")) and filepath.Base of each
Glob(dir) == SortedNames({f.name : f \in {g \in dir.pbix : g.name.ext = "pbix"}})

\* fileName[:len(fileName)-5]
StripExt(fileName) == fileName.stem

(***************************************************************************)
(* The name reconciliation of restoreReportsPBIX, lines 111-120 and 131.   *)
(***************************************************************************)
\* lines 114-117: the first counter from `counter` on whose name is not taken
RECURSIVE Probe(_, _, _)
Probe(datasetName, existing, counter) ==
    IF SuffixName(datasetName, counter) \in existing
    THEN Probe(datasetName, existing, counter + 1)
    ELSE counter

\* the probing with counter := 0
FinalNameFromZero(datasetName, existing) ==
    IF datasetName \in existing
    THEN SuffixName(datasetName, Probe(datasetName, existing, 0))
    ELSE datasetName

\* lines 112-120
FinalName(datasetName, existing) ==
    IF datasetName \in existing
    THEN SuffixName(datasetName, Probe(datasetName, existing, 1))
    ELSE datasetName

\* lines 124-131: the name is marked as taken after a successful import only
Register(existing, finalName, success) ==
    IF success THEN existing \cup {finalName} ELSE existing

\* the counting with the failed++ of line 126 missing
CountImportedOnly(counts, success) ==
    IF success THEN [counts EXCEPT !.imported = @ + 1] ELSE counts

\* lines 124-132: failed++ or imported++
CountImport(counts, success) ==
    IF success
    THEN [counts EXCEPT !.imported = @ + 1]
    ELSE [counts EXCEPT !.failed = @ + 1]

\* lines 87-99: the names of the listing; a failed listing gives the empty set
ExistingNames(listing, ok) ==
    IF ok THEN {d.name : d \in listing} ELSE {}

\* the artifact file removed from the snapshot directory once it is read
TakePBIX(disk, dir, fileName) ==
    [disk EXCEPT ![dir].pbix = {f \in @ : f.name # fileName}]

\* ImportPBIX, client.go lines 183-202: os.Open and io.Copy of the artifact
\* file into the request; the file system is as before
OpenPBIX(disk, dir, fileName) == disk

\* POST /imports?datasetDisplayName=..&nameConflict=Abort: a new dataset
Imported(workspace, finalName) ==
    workspace \cup {[name |-> finalName, id |-> [kind |-> "new", of |-> finalName]]}

(***************************************************************************)
(* restore.Service.RestoreWorkspace                                        *)
(***************************************************************************)
\* the failed load logged and the run going on with no snapshot
LoadFailedGoesOn ==
    /\ rpc' = "pbix"
    /\ UNCHANGED <<rbackup, rresult>>

\* what follows a failed LoadBackup (lines 35-38): return err
LoadFailed ==
    /\ rpc' = "done"
    /\ rresult' = "error"
    /\ UNCHANGED rbackup

\* lines 34-42
RestoreLoad ==
    /\ rpc = "start"
    /\ LET loaded == LoadBackup(fs, backupPath)
       IN  IF loaded.ok
           THEN /\ rbackup' = loaded.backup
                /\ rpc' = "pbix"
                /\ UNCHANGED rresult
           ELSE LoadFailed
    /\ UNCHANGED <<fs, bvars, xvars, target, backupPath, files, ri, existingDatasets,
                   rcounts, imports, datasetNameToID, scounts, schedLog, rcalls>>

\* the early return of lines 67-70 alone
NoPbixDir(dir) == ~dir.pbixDir

\* lines 66-82: no pbix directory, or no *.pbix file in it
NothingToImport(dir) == ~dir.pbixDir \/ Len(Glob(dir)) = 0

\* lines 65-99: no pbix directory or no file ends the step; otherwise the
\* existing datasets are listed once
restoreReportsPBIX ==
    /\ rpc = "pbix"
    /\ IF NothingToImport(fs[backupPath])
       THEN /\ rpc' = "schedules"
            /\ UNCHANGED <<files, existingDatasets, rcalls, ri>>
       ELSE /\ files' = Glob(fs[backupPath])
            /\ \E ok \in BOOLEAN :
                /\ rcalls' = Append(rcalls, Call("GetDatasets", "import", ok))
                /\ existingDatasets' = ExistingNames(target, ok)
            /\ ri' = 1
            /\ rpc' = "import"
    /\ UNCHANGED <<fs, bvars, xvars, target, backupPath, rbackup, rcounts, imports,
                   datasetNameToID, scounts, schedLog, rresult>>

\* lines 105-133: one ImportPBIX per file
restoreReportsPBIXLoop ==
    /\ rpc = "import"
    /\ IF ri <= Len(files)
       THEN LET datasetName == StripExt(files[ri])
                finalName == FinalName(datasetName, existingDatasets)
            IN  /\ \E success \in BOOLEAN :
                    \* nameConflict=Abort: no import over a dataset of that name
                    /\ success => finalName \notin {d.name : d \in target}
                    /\ rcalls' = Append(rcalls, Call("ImportPBIX", "import", success))
                    /\ fs' = OpenPBIX(fs, backupPath, files[ri])
                    /\ imports' = Append(imports,
                                    [file |-> files[ri], desired |-> datasetName,
                                     final |-> finalName, ok |-> success,
                                     taken |-> existingDatasets])
                    /\ existingDatasets' = Register(existingDatasets, finalName, success)
                    /\ target' = IF success THEN Imported(target, finalName) ELSE target
                    /\ rcounts' = CountImport(rcounts, success)
                /\ ri' = ri + 1
                /\ UNCHANGED rpc
       ELSE /\ rpc' = "schedules"
            /\ UNCHANGED <<fs, target, existingDatasets, rcounts, imports, rcalls, ri>>
    /\ UNCHANGED <<bvars, xvars, backupPath, rbackup, files, datasetNameToID,
                   scounts, schedLog, rresult>>

\* the error of the schedule step returned, as for the import step
AfterSchedulesReturnsErr(err) == IF err THEN "error" ELSE "ok"

\* lines 50-58: what RestoreWorkspace returns after the schedule step, which
\* returned an error (err) or nil
AfterSchedules(err) == "ok"

\* the index of the datasets that were there before the imports
IndexOfOldDatasets(listing) ==
    {d \in listing : d.id.kind = "old"}

\* lines 155-167: name -> id of the datasets listed, but for empty names and ids
BuildIndex(listing) ==
    {d \in listing : d.name # N("") /\ d.id # NoId}

\* lines 140-167: nothing to restore, or the datasets are listed and indexed
restoreRefreshSchedules ==
    /\ rpc = "schedules"
    /\ IF Len(rbackup.RefreshSchedules) = 0
       THEN /\ rpc' = "done"
            /\ rresult' = AfterSchedules(FALSE)
            /\ UNCHANGED <<rcalls, datasetNameToID, ri>>
       ELSE \E ok \in BOOLEAN :
            /\ rcalls' = Append(rcalls, Call("GetDatasets", "schedules", ok))
            /\ IF ok
               THEN /\ datasetNameToID' = BuildIndex(target)
                    /\ ri' = 1
                    /\ rpc' = "update"
                    /\ UNCHANGED rresult
               ELSE /\ rpc' = "done"
                    /\ rresult' = AfterSchedules(TRUE)
                    /\ UNCHANGED <<datasetNameToID, ri>>
    /\ UNCHANGED <<fs, bvars, xvars, target, backupPath, rbackup, files,
                   existingDatasets, rcounts, imports, scounts, schedLog>>

\* a lookup that finds nothing
LookupNothing(index, name) == NoId

\* newDatasetID, exists := datasetNameToID[name]
LookupID(index, name) ==
    IF \E d \in index : d.name = name
    THEN (CHOOSE d \in index : d.name = name).id
    ELSE NoId

\* lines 173-196: one lookup per schedule, and an update call when it is found
restoreRefreshSchedulesLoop ==
    /\ rpc = "update"
    /\ IF ri <= Len(rbackup.RefreshSchedules)
       THEN LET schedule == rbackup.RefreshSchedules[ri]
                newDatasetID == LookupID(datasetNameToID, schedule.DatasetName)
            IN  /\ IF newDatasetID = NoId
                   THEN /\ scounts' = [scounts EXCEPT !.failed = @ + 1]
                        /\ schedLog' = Append(schedLog,
                              [name |-> schedule.DatasetName, outcome |-> "notfound",
                               id |-> NoId, schedule |-> schedule.Schedule])
                        /\ UNCHANGED rcalls
                   ELSE \E ok \in BOOLEAN :
                        /\ rcalls' = Append(rcalls,
                                        Call("UpdateRefreshSchedule", "schedules", ok))
                        /\ scounts' = IF ok
                                      THEN [scounts EXCEPT !.restored = @ + 1]
                                      ELSE [scounts EXCEPT !.failed = @ + 1]
                        /\ schedLog' = Append(schedLog,
                              [name |-> schedule.DatasetName,
                               outcome |-> IF ok THEN "restored" ELSE "failed",
                               id |-> newDatasetID, schedule |-> schedule.Schedule])
                /\ ri' = ri + 1
                /\ UNCHANGED <<rpc, rresult>>
       ELSE /\ rpc' = "done"
            /\ rresult' = AfterSchedules(FALSE)
            /\ UNCHANGED <<scounts, schedLog, rcalls, ri>>
    /\ UNCHANGED <<fs, bvars, xvars, target, backupPath, rbackup, files,
                   existingDatasets, rcounts, imports, datasetNameToID>>

RestoreNext ==
    \/ RestoreLoad
    \/ restoreReportsPBIX
    \/ restoreReportsPBIXLoop
    \/ restoreRefreshSchedules
    \/ restoreRefreshSchedulesLoop

(***************************************************************************)
(* A restore run of a snapshot directory that an earlier backup left.      *)
(***************************************************************************)
\* names of the artifact files, of the datasets that the schedules name and
\* of the datasets already in the target workspace
RestoreStems == {N("Sales"), SuffixName(N("Sales"), 1), N("Ops")}
SchedNames == {N("Sales"), N("Ops")}
TargetNames == {N("Sales"), SuffixName(N("Sales"), 1)}

\* the datasets named `names` that the target workspace holds before the run
Existing(names) == {[name |-> n, id |-> [kind |-> "old", of |-> n]] : n \in names}

\* the schedules that a backup took of the datasets ds
RECURSIVE SchedulesOf(_)
SchedulesOf(ds) ==
    IF ds = <<>> THEN <<>>
    ELSE <<[DatasetID |-> Head(ds).ID, DatasetName |-> Head(ds).Name,
            Schedule |-> RemoteSchedule(Head(ds).ID)]>> \o SchedulesOf(Tail(ds))

\* the artifact files that a backup exported for the reports rs
ArtifactsOf(rs) ==
    {[name |-> PbixFile(rs[i].Name), report |-> rs[i].ID, whole |-> TRUE] :
        i \in 1..Len(rs)}

\* the snapshots a backup of the reports rs and datasets ds saved
SnapshotOf(t, rs, ds) ==
    [EmptyBackup EXCEPT !.Timestamp = t, !.WorkspaceID = WorkspaceID,
                        !.WorkspaceName = SrcWorkspaceName, !.Reports = rs,
                        !.Datasets = ds, !.RefreshSchedules = SchedulesOf(ds)]

\* the run directories a restore may be given: with or without a pbix
\* directory, with no, a cut or a whole complete_backup.json
SnapshotDirs ==
    {[exists |-> TRUE, pbixDir |-> p, pbix |-> a, full |-> f] :
        p \in BOOLEAN,
        a \in {ArtifactsOf(RemoteReports(SortedStemsOf(S))) :
                 S \in {T \in SUBSET RestoreStems : Cardinality(T) <= MaxFiles}},
        f \in {NoFile, CutFile}
              \cup {[state |-> "ok",
                     data |-> Marshal(SnapshotOf(t, RemoteReports(SortedStemsOf(S)),
                                                 RemoteDatasets(ns)))] :
                      t \in Times,
                      S \in {T \in SUBSET RestoreStems : Cardinality(T) <= MaxFiles},
                      ns \in SeqsUpTo(SchedNames, MaxSchedules)}}

RestoreInit ==
    /\ srcReports = <<>>
    /\ srcDatasets = <<>>
    /\ BackupRunInit("off")
    /\ backupPath \in Stamps
    /\ \E d \in {x \in SnapshotDirs :
                    /\ ~x.pbixDir => x.pbix = {}
                    /\ x.full.state = "ok" =>
                         /\ SaveDir(Unmarshal(x.full.data)) = backupPath
                         /\ x.pbix \subseteq ArtifactsOf(x.full.data.reports)} :
          fs = [st \in Stamps |-> IF st = backupPath THEN d ELSE NoDir]
    /\ target \in {Existing(T) : T \in SUBSET TargetNames}
    /\ RestoreRunInit("start")
    /\ Idle

SpecRestore == RestoreInit /\ [][RestoreNext]_vars

(***************************************************************************)
(* The name reconciliation applied to any row of desired names.            *)
(***************************************************************************)
DesiredStems == {N("Sales"), N("Ops")}
TakenNames == {N("Sales"), SuffixName(N("Sales"), 1), SuffixName(N("Sales"), 2)}

RECURSIVE FileNames(_)
FileNames(stems) ==
    IF stems = <<>> THEN <<>>
    ELSE <<PbixFile(Head(stems))>> \o FileNames(Tail(stems))

ReconcilerInit ==
    /\ srcReports = <<>>
    /\ srcDatasets = <<>>
    /\ BackupRunInit("off")
    /\ backupPath \in Stamps
    /\ fs = [st \in Stamps |-> NoDir]
    /\ rpc = "import"
    /\ rbackup = EmptyBackup
    /\ files \in {FileNames(ds) : ds \in SeqsUpTo(DesiredStems, MaxDesired)}
    /\ ri = 1
    /\ existingDatasets \in SUBSET TakenNames
    /\ target = Existing(existingDatasets)
    /\ rcounts = [imported |-> 0, failed |-> 0]
    /\ imports = <<>>
    /\ datasetNameToID = {}
    /\ scounts = [restored |-> 0, failed |-> 0]
    /\ schedLog = <<>>
    /\ rcalls = <<>>
    /\ rresult = "none"
    /\ Idle

ReconcilerNext == restoreReportsPBIXLoop

SpecReconciler == ReconcilerInit /\ [][ReconcilerNext]_vars

(***************************************************************************)
(* Round trip: a backup run, then a restore of the directory it saved      *)
(* into a fresh, empty workspace.                                          *)
(***************************************************************************)
RoundTripInit ==
    /\ srcReports \in {RemoteReports(ns) : ns \in SeqsUpTo(SrcReportNames, MaxReports)}
    /\ srcDatasets \in {RemoteDatasets(ns) : ns \in SeqsUpTo(SrcDatasetNames, MaxDatasets)}
    /\ fs = [st \in Stamps |-> NoDir]
    /\ BackupRunInit("start")
    /\ target = {}
    /\ backupPath = 0
    /\ RestoreRunInit("wait")
    /\ Idle

\* cmd/main.go restoreWorkspace: the directory SaveBackup returned is restored
RestoreBegin ==
    /\ rpc = "wait"
    /\ bpc = "done"
    /\ bresult = "ok"
    /\ backupPath' = SaveDir(backup)
    /\ rpc' = "start"
    /\ UNCHANGED <<fs, bvars, xvars, target, rbackup, files, ri, existingDatasets,
                   rcounts, imports, datasetNameToID, scounts, schedLog, rcalls,
                   rresult>>

RoundTripNext ==
    \/ BackupNext
    \/ RestoreBegin
    \/ RestoreNext

SpecRoundTrip == RoundTripInit /\ [][RoundTripNext]_vars

(***************************************************************************)
(* The snapshot store alone: SaveBackup of any snapshot, then LoadBackup   *)
(* of the location it returned.                                            *)
(***************************************************************************)
\* the snapshots handed to SaveBackup
Snapshots ==
    {[SnapshotOf(t, RemoteReports(rs), RemoteDatasets(ds))
        EXCEPT !.Dataflows = fl, !.Apps = ap] :
        t \in Times,
        rs \in SeqsUpTo(SrcReportNames, MaxReports),
        ds \in SeqsUpTo(SrcDatasetNames, MaxDatasets),
        fl \in {<<>>, SrcDataflows},
        ap \in {<<>>, SelectApps(SrcApps, WorkspaceID)}}

StoreInit ==
    /\ srcReports = <<>>
    /\ srcDatasets = <<>>
    /\ fs = [st \in Stamps |-> NoDir]
    /\ bpc = "save"
    /\ backupTime = NoTime
    /\ backup \in Snapshots
    /\ reports = <<>>
    /\ datasets = <<>>
    /\ schedules = <<>>
    /\ bi = 0
    /\ pbixStatus = [succeeded |-> 0, failed |-> 0]
    /\ bcalls = <<>>
    /\ bresult = "none"
    /\ target = {}
    /\ backupPath = 0
    /\ RestoreRunInit("wait")
    /\ Idle

\* backupPath, err := SaveBackup(backup)
StoreSave ==
    /\ bpc = "save"
    /\ \E outcome \in SaveOutcomes :
        /\ fs' = SaveBackup(fs, backup, outcome)
        /\ backupPath' = IF outcome = "ok" THEN SaveDir(backup) ELSE 0
        /\ bresult' = IF outcome = "ok" THEN "ok" ELSE "error"
    /\ bpc' = "done"
    /\ UNCHANGED <<srcReports, srcDatasets, backupTime, backup, reports,
                   datasets, schedules, bi, pbixStatus, bcalls>>
    /\ UNCHANGED <<target, rpc, rbackup, files, ri, existingDatasets, rcounts,
                   imports, datasetNameToID, scounts, schedLog, rcalls, rresult>>
    /\ UNCHANGED xvars

\* backup, err := LoadBackup(backupPath)
StoreLoad ==
    /\ bpc = "done"
    /\ bresult = "ok"
    /\ rpc = "wait"
    /\ LET loaded == LoadBackup(fs, backupPath)
       IN  /\ rbackup' = loaded.backup
           /\ rresult' = IF loaded.ok THEN "ok" ELSE "error"
    /\ rpc' = "done"
    /\ UNCHANGED <<fs, bvars, xvars, target, backupPath, files, ri, existingDatasets,
                   rcounts, imports, datasetNameToID, scounts, schedLog, rcalls>>

StoreNext ==
    \/ StoreSave
    \/ StoreLoad

SpecStore == StoreInit /\ [][StoreNext]_vars

(***************************************************************************)
(* One run, a backup or a restore, in which every call returns: a step     *)
(* that can be taken is taken.                                             *)
(***************************************************************************)
RunInit == BackupInit \/ RestoreInit

RunNext ==
    \/ BackupNext
    \/ RestoreNext

SpecRun == RunInit /\ [][RunNext]_vars /\ WF_vars(RunNext)

(***************************************************************************)
(* Restore runs started side by side by handleRestore (go                  *)
(* s.restoreWorkspace), all into the one target workspace: the import step *)
(* of each, one remote call at a time.                                     *)
(***************************************************************************)
Runs == 1..MaxRuns

\* the variables of the specifications of one run, at rest
NoRun ==
    /\ srcReports = <<>>
    /\ srcDatasets = <<>>
    /\ fs = [st \in Stamps |-> NoDir]
    /\ BackupRunInit("off")
    /\ backupPath = 0
    /\ RestoreRunInit("off")

\* the artifact files of the snapshot directories handed to the runs
RunFiles ==
    {FileNames(SortedStemsOf(S)) :
        S \in {T \in SUBSET RestoreStems : T # {} /\ Cardinality(T) <= MaxFiles}}

\* restoreReportsPBIX has found the files and is about to list the datasets
RestoreLocals(fileNames) ==
    [pc |-> "list", files |-> fileNames, i |-> 1, existingDatasets |-> {},
     listed |-> {}, imported |-> 0, failed |-> 0, calls |-> <<>>, log |-> <<>>]

RestoresInit ==
    /\ NoRun
    /\ target \in {Existing(T) : T \in SUBSET TargetNames}
    /\ runs \in [Runs -> {RestoreLocals(f) : f \in RunFiles}]
    /\ tokenCache = ""
    /\ tokenRequests = 0
    /\ all = <<>>

\* the taken-name set as one map shared by the runs
TakenShared(rs, workspace, p) ==
    UNION {rs[q].existingDatasets : q \in DOMAIN rs}

\* the taken-name set brought up to date with the workspace before each import
TakenLive(rs, workspace, p) ==
    rs[p].existingDatasets \cup {d.name : d \in workspace}

\* lines 87 and 112-114: existingDatasets is a local of the call of
\* restoreReportsPBIX; the run reads its own map, not another run's and not
\* the workspace
Taken(rs, workspace, p) == rs[p].existingDatasets

\* lines 86-99 in run p
RunListing(p) ==
    /\ runs[p].pc = "list"
    /\ \E ok \in BOOLEAN :
        runs' = [runs EXCEPT
                   ![p].existingDatasets = ExistingNames(target, ok),
                   ![p].listed = ExistingNames(target, ok),
                   ![p].calls = Append(@, Call("GetDatasets", "import", ok)),
                   ![p].pc = "import"]
    /\ UNCHANGED <<fs, bvars, rvars, tokenCache, tokenRequests, all>>

\* lines 105-133 in run p: one pass of the loop
RunImport(p) ==
    /\ runs[p].pc = "import"
    /\ runs[p].i <= Len(runs[p].files)
    /\ LET datasetName == StripExt(runs[p].files[runs[p].i])
           taken == Taken(runs, target, p)
           finalName == FinalName(datasetName, taken)
       IN  \E success \in BOOLEAN :
             /\ success => finalName \notin {d.name : d \in target}
             /\ target' = IF success THEN Imported(target, finalName) ELSE target
             /\ runs' = [runs EXCEPT
                   ![p].existingDatasets = Register(@, finalName, success),
                   ![p].imported = CountImport([imported |-> runs[p].imported,
                                                failed |-> runs[p].failed],
                                               success).imported,
                   ![p].failed = CountImport([imported |-> runs[p].imported,
                                              failed |-> runs[p].failed],
                                             success).failed,
                   ![p].calls = Append(@, Call("ImportPBIX", "import", success)),
                   ![p].log = Append(@, [desired |-> datasetName,
                                         final |-> finalName, ok |-> success,
                                         taken |-> taken]),
                   ![p].i = @ + 1]
    /\ UNCHANGED <<fs, bvars, backupPath, rpc, rbackup, files, ri,
                   existingDatasets, rcounts, imports, datasetNameToID, scounts,
                   schedLog, rcalls, rresult, tokenCache, tokenRequests, all>>

\* lines 135-136 in run p: the loop is over
RunImportsOver(p) ==
    /\ runs[p].pc = "import"
    /\ runs[p].i > Len(runs[p].files)
    /\ runs' = [runs EXCEPT ![p].pc = "done"]
    /\ UNCHANGED <<fs, bvars, rvars, tokenCache, tokenRequests, all>>

RestoresNext ==
    \E p \in Runs :
        \/ RunListing(p)
        \/ RunImport(p)
        \/ RunImportsOver(p)

SpecRestores == RestoresInit /\ [][RestoresNext]_vars

(***************************************************************************)
(* Backup runs of the one workspace started side by side by handleBackup   *)
(* (go s.backupWorkspace): the steps of each that touch the file system.   *)
(***************************************************************************)
\* the one report of the workspace the runs back up
TheReports == RemoteReports(<<N("Sales")>>)

\* BackupWorkspace has been called and has done nothing yet
BackupLocals ==
    [pc |-> "start", backupTime |-> NoTime, backup |-> EmptyBackup,
     wrote |-> {}, result |-> "none"]

BackupsInit ==
    /\ NoRun
    /\ target = {}
    /\ runs = [p \in Runs |-> BackupLocals]
    /\ tokenCache = ""
    /\ tokenRequests = 0
    /\ all = <<>>

\* part_000 lines 34-42 in run p
RunMkdir(p) ==
    /\ runs[p].pc = "start"
    /\ \E t \in Times, ok \in BOOLEAN :
        IF ok
        THEN /\ fs' = [fs EXCEPT ![Format(t)].exists = TRUE]
             /\ runs' = [runs EXCEPT ![p].backupTime = t,
                                     ![p].wrote = @ \cup {Format(t)},
                                     ![p].pc = "fetch"]
        ELSE /\ runs' = [runs EXCEPT ![p].backupTime = t,
                                     ![p].result = "error",
                                     ![p].pc = "done"]
             /\ UNCHANGED fs
    /\ UNCHANGED <<bvars, rvars, tokenCache, tokenRequests, all>>

\* part_000 lines 44-121 in run p: the settings and the collections
RunFetch(p) ==
    /\ runs[p].pc = "fetch"
    /\ \E settings \in BOOLEAN, fetched \in BOOLEAN :
        runs' = [runs EXCEPT
                   ![p].backup = IF settings
                                 THEN SnapshotOf(runs[p].backupTime,
                                                 IF fetched THEN TheReports
                                                 ELSE <<>>, <<>>)
                                 ELSE EmptyBackup,
                   ![p].pc = IF settings THEN "export" ELSE "done",
                   ![p].result = IF settings THEN "none" ELSE "error"]
    /\ UNCHANGED <<fs, bvars, rvars, tokenCache, tokenRequests, all>>

\* part_000 lines 123-130 and 319-353 in run p: the export of the report,
\* when there is one and the pbix directory could be made
RunExport(p) ==
    /\ runs[p].pc = "export"
    /\ LET dir == Format(runs[p].backupTime)
       IN  \E made \in BOOLEAN, outcome \in ExportOutcomes :
             IF made /\ Len(runs[p].backup.Reports) > 0
             THEN /\ fs' = [fs EXCEPT
                              ![dir].pbixDir = TRUE,
                              ![dir].pbix = ExportReport(@, TheReports[1], outcome)]
                  /\ runs' = [runs EXCEPT ![p].wrote = @ \cup {dir},
                                          ![p].pc = "save"]
             ELSE /\ runs' = [runs EXCEPT ![p].pc = "save"]
                  /\ UNCHANGED fs
    /\ UNCHANGED <<bvars, rvars, tokenCache, tokenRequests, all>>

\* part_000 lines 132-141 in run p
RunSave(p) ==
    /\ runs[p].pc = "save"
    /\ \E outcome \in SaveOutcomes :
        /\ fs' = SaveBackup(fs, runs[p].backup, outcome)
        /\ runs' = [runs EXCEPT
                      ![p].wrote = @ \cup {SaveDir(runs[p].backup)},
                      ![p].result = IF outcome = "ok" THEN "ok" ELSE "error",
                      ![p].pc = "done"]
    /\ UNCHANGED <<bvars, rvars, tokenCache, tokenRequests, all>>

BackupsNext ==
    \E p \in Runs :
        \/ RunMkdir(p)
        \/ RunFetch(p)
        \/ RunExport(p)
        \/ RunSave(p)

SpecBackups == BackupsInit /\ [][BackupsNext]_vars

(***************************************************************************)
(* auth.AuthService.GetAccessToken, called by several goroutines at once.  *)
(***************************************************************************)
Callers == 1..MaxCallers

\* the access tokens the token endpoint may hand out
Tokens == {"t1", "t2"}

\* GetAccessToken has been called and has not read the cache yet
TokenLocals == [pc |-> "check", token |-> "", result |-> "none"]

AuthInit ==
    /\ NoRun
    /\ target = {}
    /\ runs = [c \in Callers |-> TokenLocals]
    /\ tokenCache = ""
    /\ tokenRequests = 0
    /\ all = <<>>

\* auth.go lines 48-54: the cache read under the read lock
TokenCheck(c) ==
    /\ runs[c].pc = "check"
    /\ runs' = IF tokenCache # ""
               THEN [runs EXCEPT ![c].result = tokenCache, ![c].pc = "done"]
               ELSE [runs EXCEPT ![c].pc = "request"]
    /\ UNCHANGED <<fs, bvars, rvars, tokenCache, tokenRequests, all>>

\* auth.go lines 56-95: the token request, with no lock held
TokenRequest(c) ==
    /\ runs[c].pc = "request"
    /\ tokenRequests' = tokenRequests + 1
    /\ \/ \E token \in Tokens :
             runs' = [runs EXCEPT ![c].token = token, ![c].pc = "store"]
       \/ runs' = [runs EXCEPT ![c].result = "error", ![c].pc = "done"]
    /\ UNCHANGED <<fs, bvars, rvars, tokenCache, all>>

\* auth.go lines 97-102: the cache written under the write lock
TokenStore(c) ==
    /\ runs[c].pc = "store"
    /\ tokenCache' = runs[c].token
    /\ runs' = [runs EXCEPT ![c].result = runs[c].token, ![c].pc = "done"]
    /\ UNCHANGED <<fs, bvars, rvars, tokenRequests, all>>

AuthNext ==
    \E c \in Callers :
        \/ TokenCheck(c)
        \/ TokenRequest(c)
        \/ TokenStore(c)

SpecAuth == AuthInit /\ [][AuthNext]_vars

(***************************************************************************)
(* backupAllWorkspaces of cmd/main.go and of cmd/server/main.go.           *)
(***************************************************************************)
\* the entries of "value": workspaces, and entries that are no JSON object
Entries == {[object |-> TRUE, id |-> "W"], [object |-> TRUE, id |-> "V"],
            [object |-> TRUE, id |-> ""], [object |-> FALSE, id |-> ""]}

\* what GetWorkspaces hands back: an error, a response whose "value" is no
\* array, or the listing
ListingOutcomes == {"error", "invalid", "ok"}

\* the two front ends
FrontEnds == {"cli", "server"}

BackupAllInit ==
    /\ NoRun
    /\ target = {}
    /\ runs = <<>>
    /\ tokenCache = ""
    /\ tokenRequests = 0
    /\ \E front \in FrontEnds, value \in SeqsUpTo(Entries, MaxWorkspaces) :
          all = [pc |-> "start", front |-> front, listing |-> value,
                 value |-> <<>>, i |-> 0, successCount |-> 0, failCount |-> 0,
                 calls |-> <<>>]

\* cmd/main.go lines 107-123, cmd/server/main.go lines 470-486
GetWorkspaces ==
    /\ all.pc = "start"
    /\ \E outcome \in ListingOutcomes :
        all' = IF outcome = "error"
               THEN [all EXCEPT !.pc = IF all.front = "cli" THEN "exit" ELSE "return"]
               ELSE IF \/ outcome = "invalid"
                       \/ all.front = "cli" /\ Len(all.listing) = 0
                    THEN [all EXCEPT !.pc = "return"]
                    ELSE [all EXCEPT !.value = all.listing, !.i = 1, !.pc = "loop"]
    /\ UNCHANGED <<fs, bvars, rvars, runs, tokenCache, tokenRequests>>

\* the counting with the successCount++ only
CountSucceeded(counts, ok) ==
    IF ok THEN [counts EXCEPT !.successCount = @ + 1] ELSE counts

\* cmd/main.go lines 136-143, cmd/server/main.go lines 499-505
CountWorkspace(counts, ok) ==
    IF ok
    THEN [counts EXCEPT !.successCount = @ + 1]
    ELSE [counts EXCEPT !.failCount = @ + 1]

\* cmd/main.go lines 125-144, cmd/server/main.go lines 488-506: one pass
BackupAllLoop ==
    /\ all.pc = "loop"
    /\ all.i <= Len(all.value)
    /\ LET item == all.value[all.i]
       IN  IF ~item.object
           THEN all' = [all EXCEPT !.i = @ + 1]
           ELSE \E ok \in BOOLEAN :
                  all' = [CountWorkspace(all, ok) EXCEPT
                            !.calls = Append(@, Call("BackupWorkspace", item.id, ok)),
                            !.i = @ + 1]
    /\ UNCHANGED <<fs, bvars, rvars, runs, tokenCache, tokenRequests>>

\* cmd/main.go line 146, cmd/server/main.go line 508: the loop is over
BackupAllOver ==
    /\ all.pc = "loop"
    /\ all.i > Len(all.value)
    /\ all' = [all EXCEPT !.pc = "done"]
    /\ UNCHANGED <<fs, bvars, rvars, runs, tokenCache, tokenRequests>>

BackupAllNext ==
    \/ GetWorkspaces
    \/ BackupAllLoop
    \/ BackupAllOver

SpecBackupAll == BackupAllInit /\ [][BackupAllNext]_vars

(***************************************************************************)
(* What the two entry points hand back to their caller.                    *)
(***************************************************************************)
\* part_000 lines 41, 48, 137 and 141: (nil, err) or (backup, nil)
BackupReturns ==
    IF bresult = "ok"
    THEN [backup |-> backup, err |-> FALSE]
    ELSE [backup |-> EmptyBackup, err |-> TRUE]

\* service.go lines 37, 46 and 58: err or nil
RestoreReturns == [err |-> rresult # "ok"]

(***************************************************************************)
(* Properties.                                                             *)
(***************************************************************************)
\* a call `c` of the backup run was made / returned an error
Made(c) == \E i \in 1..Len(bcalls) : bcalls[i].call = c
Failed(c) == \E i \in 1..Len(bcalls) : bcalls[i].call = c /\ ~bcalls[i].ok

\* the schedule fetch of the dataset `id` was made and succeeded
ScheduleFetched(id) ==
    \E i \in 1..Len(bcalls) :
        /\ bcalls[i].call = "GetRefreshSchedule"
        /\ bcalls[i].arg = id
        /\ bcalls[i].ok

\* the schedules of the datasets of ds whose schedule fetch succeeded
RECURSIVE FetchedSchedules(_)
FetchedSchedules(ds) ==
    IF ds = <<>> THEN <<>>
    ELSE (IF ScheduleFetched(Head(ds).ID) THEN SchedulesOf(<<Head(ds)>>) ELSE <<>>)
         \o FetchedSchedules(Tail(ds))

\* the backup run ended with the settings fetched and the snapshot saved
SettingsAndSaveOk ==
    /\ bpc = "done"
    /\ ~Failed("GetWorkspaceSettings")
    /\ Made("SaveBackup")
    /\ ~Failed("SaveBackup")

\* C1: once the workspace-settings fetch has failed, BackupWorkspace has
\* returned an error and no snapshot, and the run has made no other call: no
\* collection fetch, no export, no SaveBackup (nothing is saved either).
C1_SettingsFailureIsFatal ==
    Failed("GetWorkspaceSettings") =>
        /\ bpc = "done"
        /\ bresult = "error"
        /\ backup = EmptyBackup
        /\ \A i \in 1..Len(bcalls) : bcalls[i].call = "GetWorkspaceSettings"
        /\ \A st \in Stamps : fs[st].full.state = "none" /\ fs[st].pbix = {}

\* C1: a run that ended on a failed workspace-settings fetch.
C1_Witness ==
    /\ bpc = "done"
    /\ bresult = "error"
    /\ Failed("GetWorkspaceSettings")

\* C2 as stated: with the settings fetched and the snapshot saved, the run
\* succeeds and each of the five collections (reports, datasets, dataflows,
\* dashboards, refresh schedules) is empty if its fetch failed and holds the
\* remote items if its fetch did not fail.
C2_EmptyExactlyForFailedFetches ==
    SettingsAndSaveOk =>
        /\ bresult = "ok"
        /\ backup.Reports = IF Failed("GetReports") THEN <<>> ELSE srcReports
        /\ backup.Datasets = IF Failed("GetDatasets") THEN <<>> ELSE srcDatasets
        /\ backup.Dataflows = IF Failed("GetDataflows") THEN <<>> ELSE SrcDataflows
        /\ backup.Dashboards = IF Failed("GetDashboards") THEN <<>> ELSE SrcDashboards
        /\ backup.RefreshSchedules =
             IF Failed("GetRefreshSchedule") THEN <<>> ELSE SchedulesOf(srcDatasets)

\* C2 as amended: with the settings fetched and the snapshot saved, the run
\* succeeds for every set of failing fetches; reports, datasets, dataflows and
\* dashboards are each empty if their fetch failed and the fetched items
\* otherwise; the schedule collection holds one entry for each dataset of the
\* snapshot's dataset collection whose schedule fetch succeeded, so it is
\* empty too when the datasets fetch failed; the saved snapshot is that one.
C2_CollectionsOfFetchedItems ==
    SettingsAndSaveOk =>
        /\ bresult = "ok"
        /\ backup.Reports = IF Failed("GetReports") THEN <<>> ELSE srcReports
        /\ backup.Datasets = IF Failed("GetDatasets") THEN <<>> ELSE srcDatasets
        /\ backup.Dataflows = IF Failed("GetDataflows") THEN <<>> ELSE SrcDataflows
        /\ backup.Dashboards = IF Failed("GetDashboards") THEN <<>> ELSE SrcDashboards
        /\ backup.RefreshSchedules = FetchedSchedules(backup.Datasets)
        /\ Failed("GetDatasets") => backup.RefreshSchedules = <<>>
        /\ fs[Format(backupTime)].full = [state |-> "ok", data |-> Marshal(backup)]

\* C2: a successful run in which the datasets and dashboards fetches failed,
\* the reports fetch did not, and the workspace has reports and datasets.
C2_Witness ==
    /\ SettingsAndSaveOk
    /\ bresult = "ok"
    /\ Failed("GetDatasets")
    /\ Failed("GetDashboards")
    /\ ~Failed("GetReports")
    /\ srcReports # <<>>
    /\ srcDatasets # <<>>
    /\ backup.RefreshSchedules = <<>>

\* C3: after a backup run that ended in a fatal abort, every location that
\* ListBackups returns, and the one GetLatestBackup returns, holds a
\* full-snapshot file that LoadBackup loads.
C3_AbortLeavesNothingListed ==
    (bpc = "done" /\ bresult = "error") =>
        /\ \A i \in 1..Len(ListBackups(fs)) : LoadBackup(fs, ListBackups(fs)[i]).ok
        /\ GetLatestBackup(fs) # 0 => LoadBackup(fs, GetLatestBackup(fs)).ok

\* C4: no two artifacts of a restore run are submitted under the same final
\* name, whatever imports fail, and a desired name that is not taken is
\* submitted unchanged.
C4_FinalNamesDistinct ==
    /\ \A i, j \in 1..Len(imports) : i # j => imports[i].final # imports[j].final
    /\ \A i \in 1..Len(imports) :
          imports[i].desired \notin imports[i].taken =>
              imports[i].final = imports[i].desired

\* C5: the final name of every artifact processed so far is in the run's
\* taken-name set, whether or not its import succeeded.
C5_FinalNamesRegistered ==
    \A i \in 1..Len(imports) : imports[i].final \in existingDatasets

\* C6: no final name submitted for import is the name of a dataset that was
\* in the target workspace when the run started, also after a failed listing.
C6_NoCollisionWithExisting ==
    \A i \in 1..Len(imports) :
        \A d \in target : d.id.kind = "old" => imports[i].final # d.name

\* C7: every final name is the desired name d when d is not taken, and
\* otherwise d_n for the least n >= 1 with d_n not taken; Sales, Sales, Sales
\* against the empty set, all imported, give Sales, Sales_1, Sales_2.
C7_LowestFreeSuffix ==
    /\ \A i \in 1..Len(imports) :
          LET d == imports[i].desired
              T == imports[i].taken
              f == imports[i].final
          IN  IF d \notin T THEN f = d
              ELSE \E n \in 1..(Cardinality(T) + 1) :
                      /\ f = SuffixName(d, n)
                      /\ f \notin T
                      /\ \A m \in 1..(n - 1) : SuffixName(d, m) \in T
    /\ ( /\ Len(imports) = 3
         /\ imports[1].taken = {}
         /\ \A i \in 1..3 : imports[i].desired = N("Sales") /\ imports[i].ok )
       => /\ imports[1].final = N("Sales")
          /\ imports[2].final = SuffixName(N("Sales"), 1)
          /\ imports[3].final = SuffixName(N("Sales"), 2)

\* C7: Sales, Sales, Sales were reconciled against the empty set and imported.
C7_Witness ==
    /\ Len(imports) = 3
    /\ imports[1].taken = {}
    /\ \A i \in 1..3 : imports[i].desired = N("Sales") /\ imports[i].ok
    /\ imports[3].final = SuffixName(N("Sales"), 2)

\* C8: a restore of the directory a backup saved makes as many import attempts
\* as exports were counted as succeeded, and every file it imports was left by
\* an export that succeeded.
C8_ImportsMatchExports ==
    (rpc = "done" /\ rresult = "ok") =>
        /\ Len(imports) = pbixStatus.succeeded
        /\ \A i \in 1..Len(imports) :
              \A f \in fs[backupPath].pbix : f.name = imports[i].file => f.whole

\* C9: when an artifact was renamed on import, no schedule whose captured
\* dataset name is the artifact's original name is found in the index: it
\* is skipped without an update call.
C9_RenamedNameNotFound ==
    \A i \in 1..Len(imports) :
        imports[i].final # imports[i].desired =>
            \A k \in 1..Len(schedLog) :
                schedLog[k].name = imports[i].desired =>
                    schedLog[k].outcome = "notfound"

CallsOf(log, c) == SelectSeq(log, LAMBDA x : x.call = c)

\* C11: when the snapshot does not load, RestoreWorkspace has returned the
\* error and the run has made no remote call: no listing, no import, no
\* schedule update.
C11_LoadFailureIsFatal ==
    (rpc # "start" /\ ~LoadBackup(fs, backupPath).ok) =>
        /\ rpc = "done"
        /\ rresult = "error"
        /\ rcalls = <<>>
        /\ imports = <<>>
        /\ schedLog = <<>>

\* C11: a run that ended on a cut complete_backup.json, in a directory that
\* holds artifact files.
C11_Witness ==
    /\ rpc = "done"
    /\ rresult = "error"
    /\ fs[backupPath].full.state = "partial"
    /\ fs[backupPath].pbixDir
    /\ fs[backupPath].pbix # {}

\* C12: the k-th schedule handled is the k-th of the snapshot; if its dataset
\* name is in the post-import listing, one update call with its configuration
\* went to the id listed for the name, otherwise no call was made and it was
\* counted as failed; the update calls are as many as the names found, and
\* once the listing succeeded the step handles every schedule and the run
\* ends in success.
C12_SchedulesAppliedByName ==
    /\ Len(schedLog) <= Len(rbackup.RefreshSchedules)
    /\ \A k \in 1..Len(schedLog) :
          LET schedule == rbackup.RefreshSchedules[k]
              listed == {d \in datasetNameToID : d.name = schedule.DatasetName}
          IN  /\ schedLog[k].name = schedule.DatasetName
              /\ IF listed # {}
                 THEN /\ schedLog[k].outcome \in {"restored", "failed"}
                      /\ schedLog[k].schedule = schedule.Schedule
                      /\ \E d \in listed : schedLog[k].id = d.id
                 ELSE /\ schedLog[k].outcome = "notfound"
                      /\ schedLog[k].id = NoId
    /\ Len(CallsOf(rcalls, "UpdateRefreshSchedule")) =
          Cardinality({k \in 1..Len(schedLog) : schedLog[k].outcome # "notfound"})
    /\ scounts.failed =
          Cardinality({k \in 1..Len(schedLog) : schedLog[k].outcome # "restored"})
    /\ scounts.restored =
          Cardinality({k \in 1..Len(schedLog) : schedLog[k].outcome = "restored"})
    /\ (rpc = "done" /\ Call("GetDatasets", "schedules", TRUE) \in
                           {rcalls[i] : i \in 1..Len(rcalls)}) =>
          /\ Len(schedLog) = Len(rbackup.RefreshSchedules)
          /\ rresult = "ok"

\* C12: a run in which one schedule was applied to a dataset imported by the
\* run and another one named a dataset that the listing does not hold.
C12_Witness ==
    /\ rpc = "done"
    /\ Len(schedLog) = 2
    /\ \E k \in 1..2 : schedLog[k].outcome = "restored" /\ schedLog[k].id.kind = "new"
    /\ \E k \in 1..2 : schedLog[k].outcome = "notfound"
    /\ scounts = [restored |-> 1, failed |-> 1]

\* the artifact files found under the pbix directory of the snapshot
ArtifactFiles ==
    IF fs[backupPath].pbixDir THEN Glob(fs[backupPath]) ELSE <<>>

\* C13: the i-th import attempt is for the i-th artifact file found, each
\* attempt is one ImportPBIX call, imported + failed is the number of
\* attempts, and when the import step is over every file found has had its
\* attempt.
C13_OneImportPerFile ==
    /\ Len(imports) <= Len(ArtifactFiles)
    /\ \A i \in 1..Len(imports) : imports[i].file = ArtifactFiles[i]
    /\ Len(CallsOf(rcalls, "ImportPBIX")) = Len(imports)
    /\ rcounts.imported + rcounts.failed = Len(imports)
    /\ (rpc \in {"schedules", "update"} \/ (rpc = "done" /\ rresult = "ok")) =>
          /\ Len(imports) = Len(ArtifactFiles)
          /\ rcounts.imported + rcounts.failed = Len(ArtifactFiles)

\* C13: a finished run of two files whose first import failed and whose
\* second import succeeded.
C13_Witness ==
    /\ rpc = "done"
    /\ Len(imports) = 2
    /\ ~imports[1].ok
    /\ imports[2].ok
    /\ rcounts = [imported |-> 1, failed |-> 1]

\* the export step of the backup run is over
ExportStepOver ==
    \/ bpc = "save"
    \/ bpc = "done" /\ Made("GetWorkspaceSettings") /\ ~Failed("GetWorkspaceSettings")

\* the i-th ExportReport call of the run is for the i-th report of the snapshot
ExportsInOrder ==
    LET calls == CallsOf(bcalls, "ExportReport")
    IN  /\ Len(calls) = Len(backup.Reports)
        /\ \A i \in 1..Len(calls) : calls[i].arg = backup.Reports[i].ID

\* C14 as stated: in every backup run, once the export step is over each
\* report of the snapshot has had exactly one export attempt, succeeded +
\* failed is the number of reports, and the run goes on to SaveBackup.
C14_EveryReportExportedOnce ==
    ExportStepOver =>
        /\ ExportsInOrder
        /\ pbixStatus.succeeded + pbixStatus.failed = Len(backup.Reports)
        /\ bpc = "done" => Made("SaveBackup")

\* C14: in a backup run whose pbix directory was made, each report of the
\* snapshot gets exactly one export attempt and succeeded + failed is the
\* number of reports; when there are reports and the directory cannot be made,
\* no export is attempted and nothing is counted; either way, and whatever
\* exports fail, the run goes on to SaveBackup.
C14_ExportedOnceWhenDirMade ==
    ExportStepOver =>
        /\ fs[Format(backupTime)].pbixDir =>
              /\ ExportsInOrder
              /\ pbixStatus.succeeded + pbixStatus.failed = Len(backup.Reports)
        /\ ~fs[Format(backupTime)].pbixDir =>
              /\ CallsOf(bcalls, "ExportReport") = <<>>
              /\ pbixStatus = [succeeded |-> 0, failed |-> 0]
        /\ Len(backup.Reports) = 0 => ~fs[Format(backupTime)].pbixDir
        /\ bpc = "done" => Made("SaveBackup")

\* C14: a saved run of two reports whose first export failed and whose second
\* export succeeded.
C14_Witness ==
    /\ bpc = "done"
    /\ bresult = "ok"
    /\ Len(backup.Reports) = 2
    /\ pbixStatus = [succeeded |-> 1, failed |-> 1]
    /\ LET calls == CallsOf(bcalls, "ExportReport")
       IN  Len(calls) = 2 /\ ~calls[1].ok /\ calls[2].ok

\* what a run of the same workspace at the same time returns when every fetch
\* and every export succeeds
CompleteBackupReturns ==
    [backup |-> [SnapshotOf(backupTime, srcReports, srcDatasets)
                   EXCEPT !.Dataflows = SrcDataflows,
                          !.Dashboards = SrcDashboards,
                          !.Apps = SelectApps(SrcApps, WorkspaceID)],
     err |-> FALSE]

\* C15: the values returned by a backup run with a failed export differ from
\* those of the run with no failure, and the value returned by a restore run
\* with a failed import or schedule differs from that of a run with none.
C15_CountsReturned ==
    /\ (bpc = "done" /\ pbixStatus.failed > 0) =>
          BackupReturns # CompleteBackupReturns
    /\ (rpc = "done" /\ (rcounts.failed > 0 \/ scounts.failed > 0)) =>
          RestoreReturns # [err |-> FALSE]

\* C16: the snapshot carries the time of the run; the run directory, the pbix
\* directory with the artifact files and the directory SaveBackup writes are
\* one directory, named after that time.
C16_OneRunDirectory ==
    /\ backup # EmptyBackup => backup.Timestamp = backupTime
    /\ \A st \in Stamps :
          /\ fs[st].exists => st = Format(backupTime)
          /\ (fs[st].pbixDir \/ fs[st].pbix # {}) =>
                /\ st = Format(backupTime)
                /\ backup # EmptyBackup => st = SaveDir(backup)
          /\ fs[st].full.state # "none" =>
                /\ st = Format(backupTime)
                /\ st = Format(backup.Timestamp)
          /\ fs[st].full.state = "ok" =>
                Unmarshal(fs[st].full.data).Timestamp = backupTime
    /\ (bpc = "done" /\ bresult = "ok") =>
          fs[Format(backupTime)].full.state = "ok"

\* C16: a saved run, begun at a time with a fraction of a second, whose
\* directory holds the snapshot file and an artifact file.
C16_Witness ==
    /\ bpc = "done"
    /\ bresult = "ok"
    /\ backupTime = [sec |-> 1, ns |-> 5]
    /\ fs[1].full.state = "ok"
    /\ fs[1].pbix # {}
    /\ ~fs[2].exists

\* C17: after a failed apps fetch the snapshot has no apps, the schedule and
\* export steps run as ever, the run reaches SaveBackup, and it returns an
\* error only if SaveBackup failed.
C17_AppsFailureIsSilent ==
    Failed("GetApps") =>
        /\ backup.Apps = <<>>
        /\ bpc \in {"pbix", "export", "save", "done"} =>
              Len(CallsOf(bcalls, "GetRefreshSchedule")) = Len(backup.Datasets)
        /\ bpc \in {"save", "done"} =>
              (fs[Format(backupTime)].pbixDir => ExportsInOrder)
        /\ bpc = "done" =>
              /\ Made("SaveBackup")
              /\ bresult = "ok" <=> ~Failed("SaveBackup")
              /\ bresult = "ok" =>
                    fs[Format(backupTime)].full = [state |-> "ok", data |-> Marshal(backup)]

\* C17: a saved run whose apps fetch failed and whose reports were exported.
C17_Witness ==
    /\ bpc = "done"
    /\ bresult = "ok"
    /\ Failed("GetApps")
    /\ backup.Apps = <<>>
    /\ backup.Datasets # <<>>
    /\ pbixStatus.succeeded > 0

\* the schedule step of the backup run is over
SchedulesStepOver ==
    \/ bpc \in {"pbix", "export", "save"}
    \/ bpc = "done" /\ Made("GetApps")

\* C18: the i-th schedule fetch is for the i-th dataset of the snapshot; when
\* the step is over there is one fetch per dataset, the schedule collection
\* holds, in order, the id, name and schedule of exactly the datasets whose
\* fetch succeeded, and the run goes on to SaveBackup.
C18_OneScheduleFetchPerDataset ==
    /\ LET calls == CallsOf(bcalls, "GetRefreshSchedule")
       IN  /\ Len(calls) <= Len(backup.Datasets)
           /\ \A i \in 1..Len(calls) : calls[i].arg = backup.Datasets[i].ID
           /\ SchedulesStepOver => Len(calls) = Len(backup.Datasets)
    /\ SchedulesStepOver =>
          /\ backup.RefreshSchedules = FetchedSchedules(backup.Datasets)
          /\ \A i \in 1..Len(backup.Datasets) :
                (\E k \in 1..Len(backup.RefreshSchedules) :
                    /\ backup.RefreshSchedules[k].DatasetID = backup.Datasets[i].ID
                    /\ backup.RefreshSchedules[k].DatasetName = backup.Datasets[i].Name)
                <=> ScheduleFetched(backup.Datasets[i].ID)
    /\ (SchedulesStepOver /\ bpc = "done") => Made("SaveBackup")

\* C18: two datasets, the schedule fetch of the first failed and that of the
\* second succeeded: the collection holds the second only.
C18_Witness ==
    /\ SchedulesStepOver
    /\ Len(backup.Datasets) = 2
    /\ Len(backup.RefreshSchedules) = 1
    /\ backup.RefreshSchedules[1].DatasetID = backup.Datasets[2].ID
    /\ ~ScheduleFetched(backup.Datasets[1].ID)

\* C19: after the export step of a run in which every export succeeded, the
\* pbix directory holds one whole artifact file for each report of the
\* snapshot, and as many files as reports.
C19_OneArtifactPerReport ==
    ( /\ bpc \in {"save", "done"}
      /\ fs[Format(backupTime)].pbixDir
      /\ pbixStatus.succeeded = Len(backup.Reports) ) =>
        /\ Cardinality(fs[Format(backupTime)].pbix) = Len(backup.Reports)
        /\ \A i \in 1..Len(backup.Reports) :
              \E f \in fs[Format(backupTime)].pbix :
                  f.report = backup.Reports[i].ID /\ f.whole

C23_RunsEnd == <>(bpc = "done" \/ rpc = "done")

\* C23: a restore run that probed past Sales_1 to Sales_2 and came to its end.
C23_Witness ==
    /\ rpc = "done"
    /\ \E i \in 1..Len(imports) :
          imports[i].final = SuffixName(N("Sales"), 2)

\* C24: SaveBackup is called at most once, it is the last call of the run,
\* and when it is called every collection fetch, one schedule fetch for each
\* dataset and one export for each report have been made.
C24_SaveBackupLast ==
    LET saves == {i \in 1..Len(bcalls) : bcalls[i].call = "SaveBackup"}
    IN  /\ Cardinality(saves) <= 1
        /\ \A i \in saves : i = Len(bcalls)
        /\ saves # {} =>
              /\ \A c \in {"GetWorkspaceSettings", "GetReports", "GetDatasets",
                            "GetDataflows", "GetDashboards", "GetApps"} :
                    Len(CallsOf(bcalls, c)) = 1
              /\ Len(CallsOf(bcalls, "GetRefreshSchedule")) = Len(datasets)
              /\ fs[Format(backupTime)].pbixDir => ExportsInOrder
              /\ bpc = "done"

\* C24: a run that fetched two schedules, exported two reports and then
\* called SaveBackup, which failed.
C24_Witness ==
    /\ bpc = "done"
    /\ Failed("SaveBackup")
    /\ Len(CallsOf(bcalls, "GetRefreshSchedule")) = 2
    /\ Len(CallsOf(bcalls, "ExportReport")) = 2

\* C25: every import attempt of the run comes before the dataset listing of
\* the schedule step and before every schedule update call, and the index of
\* the schedule step holds every dataset the run imported.
C25_IndexAfterImports ==
    /\ \A i, j \in 1..Len(rcalls) :
          ( /\ rcalls[i].call = "ImportPBIX"
            /\ \/ rcalls[j].call = "UpdateRefreshSchedule"
               \/ rcalls[j].call = "GetDatasets" /\ rcalls[j].arg = "schedules" )
          => i < j
    /\ (rpc = "update" \/ schedLog # <<>>) =>
          /\ Len(imports) = Len(ArtifactFiles)
          /\ \A i \in 1..Len(imports) :
                imports[i].ok =>
                    \E d \in datasetNameToID :
                        d.name = imports[i].final /\ d.id.kind = "new"

\* C25: a schedule was applied to a dataset that the run had imported.
C25_Witness ==
    /\ rpc = "done"
    /\ \E i \in 1..Len(imports) : imports[i].ok
    /\ \E k \in 1..Len(schedLog) :
          schedLog[k].outcome = "restored" /\ schedLog[k].id.kind = "new"

\* C26: no step of a restore run changes the snapshot directory: the
\* full-snapshot file and the artifact files stay as they were.
C26_SnapshotUntouched == [][fs' = fs]_vars

\* C26: a finished run that imported two artifact files, which are still there.
C26_Witness ==
    /\ rpc = "done"
    /\ Len(imports) = 2
    /\ Cardinality(fs[backupPath].pbix) = 2
    /\ fs[backupPath].full.state = "ok"

OwnNames(p, k) ==
    {runs[p].log[j].final : j \in {m \in 1..k : runs[p].log[m].ok}}

\* C21: in every interleaving of the runs, the final names of a run are those
\* the reconciliation gives from the names its own listing returned and the
\* outcomes of its own imports; its taken-name set holds those names only and
\* its counters count its own imports only.
C21_RunStateIsItsOwn ==
    \A p \in Runs :
        /\ \A k \in 1..Len(runs[p].log) :
              runs[p].log[k].final =
                  FinalName(StripExt(runs[p].files[k]),
                            runs[p].listed \cup OwnNames(p, k - 1))
        /\ runs[p].existingDatasets =
              runs[p].listed \cup OwnNames(p, Len(runs[p].log))
        /\ runs[p].imported = Cardinality({k \in 1..Len(runs[p].log) : runs[p].log[k].ok})
        /\ runs[p].failed = Cardinality({k \in 1..Len(runs[p].log) : ~runs[p].log[k].ok})

\* C21: two finished runs, the first of which listed the workspace before
\* the second imported Sales into it and then found Sales free all the same.
C21_Witness ==
    /\ \A p \in Runs : runs[p].pc = "done"
    /\ runs[1].listed = {}
    /\ runs[1].log[1].final = N("Sales")
    /\ ~runs[1].log[1].ok
    /\ runs[2].log[1].final = N("Sales")
    /\ runs[2].log[1].ok
    /\ runs[1].failed = 1
    /\ runs[2].imported = Len(runs[2].files)

\* C22: a run lists the datasets once, as its first call, and the taken-name
\* set it reconciles against at each import is the names of that listing
\* and the names it registered itself: nothing another writer added since.
C22_ListedOnceNeverReread ==
    \A p \in Runs :
        /\ \A i \in 1..Len(runs[p].calls) :
              runs[p].calls[i].call = "GetDatasets" <=> i = 1
        /\ \A k \in 1..Len(runs[p].log) :
              runs[p].log[k].taken = runs[p].listed \cup OwnNames(p, k - 1)

\* C22: two runs have submitted the same final name, which the target
\* workspace holds by now.
C22_Witness ==
    \E p, q \in Runs :
        /\ p # q
        /\ \E k \in 1..Len(runs[p].log), m \in 1..Len(runs[q].log) :
              /\ runs[p].log[k].final = runs[q].log[m].final
              /\ runs[p].log[k].ok
              /\ runs[p].log[k].final \notin runs[q].log[m].taken

\* C28: no directory is written by two backup runs.
C28_RunDirectoriesDisjoint ==
    \A p, q \in Runs : p # q => runs[p].wrote \cap runs[q].wrote = {}

\* C29: one token request at most is sent, the calls that succeeded all
\* returned the same token, and while every request made has failed the
\* cache is empty.
C29_OneTokenRequest ==
    /\ tokenRequests <= 1
    /\ \A c, d \in Callers :
          (runs[c].result \notin {"none", "error"} /\
           runs[d].result \notin {"none", "error"}) =>
              runs[c].result = runs[d].result
    /\ (\A c \in Callers : runs[c].token = "") => tokenCache = ""

\* the workspace entries among the first k entries of the listing
RECURSIVE WorkspaceIds(_, _)
WorkspaceIds(value, k) ==
    IF k = 0 THEN <<>>
    ELSE WorkspaceIds(value, k - 1) \o
         (IF value[k].object THEN <<value[k].id>> ELSE <<>>)

\* C30: the BackupWorkspace calls made so far are, in order, one for each
\* workspace entry passed so far, whatever their outcomes; successCount +
\* failCount is their number; at the end every entry of the listing has been
\* passed.
C30_EveryWorkspaceBackedUpOnce ==
    all.pc \in {"loop", "done"} =>
        LET ids == WorkspaceIds(all.value, all.i - 1)
        IN  /\ Len(all.calls) = Len(ids)
            /\ \A k \in 1..Len(ids) : all.calls[k].arg = ids[k]
            /\ all.successCount + all.failCount = Len(ids)
            /\ all.successCount = Len(SelectSeq(all.calls, LAMBDA x : x.ok))
            /\ all.value = all.listing
            /\ all.pc = "done" => all.i = Len(all.listing) + 1

\* C30: three workspaces, the backup of the first failed and those of the
\* second and third succeeded.
C30_Witness ==
    /\ all.pc = "done"
    /\ Len(all.calls) = 3
    /\ ~all.calls[1].ok
    /\ all.calls[2].ok
    /\ all.calls[3].ok
    /\ all.successCount = 2
    /\ all.failCount = 1

====
